---- MODULE Spec2Model ----
(***************************************************************************)
(* The resilient request client of the chess-club frontend                 *)
(* (frontend/src/lib/api.js): request(), parseResponseOnce(), ApiError and *)
(* getErrorMessage(), together with the credential entries of localStorage *)
(* that request() removes on an expired-token 401.                         *)
(*                                                                         *)
(* JavaScript strings are sequences of one-character strings, so that      *)
(* toLowerCase(), includes(), parseInt() and JSON.parse() are computed on  *)
(* the characters.  JavaScript values are records [t |-> type, v |-> ...]. *)
(***************************************************************************)
EXTENDS Integers, Sequences, FiniteSets, TLC

\* api.js line 7: const MAX_RETRIES = 3
MAX_RETRIES == 3
\* api.js line 8: const RETRY_DELAY = 1000 (milliseconds)
RETRY_DELAY == 1000
\* api.js line 44: setTimeout(() => controller.abort(), 30000)
TIMEOUT_MS == 30000

----------------------------------------------------------------------------
(* JavaScript strings                                                      *)

Digits == <<"0","1","2","3","4","5","6","7","8","9">>
UpperCase ==
    <<"A","B","C","D","E","F","G","H","I","J","K","L","M",
      "N","O","P","Q","R","S","T","U","V","W","X","Y","Z">>
LowerCase ==
    <<"a","b","c","d","e","f","g","h","i","j","k","l","m",
      "n","o","p","q","r","s","t","u","v","w","x","y","z">>

IsDigit(ch) == \E i \in 1..10 : Digits[i] = ch
DigitVal(ch) == (CHOOSE i \in 1..10 : Digits[i] = ch) - 1
IsSpace(ch) == ch \in {" ", "\n", "\t", "\r"}

\* String.prototype.toLowerCase
LowerChar(ch) ==
    IF \E i \in 1..26 : UpperCase[i] = ch
    THEN LowerCase[CHOOSE i \in 1..26 : UpperCase[i] = ch]
    ELSE ch
ToLowerCase(s) == [i \in 1..Len(s) |-> LowerChar(s[i])]

\* String.prototype.includes
Includes(s, sub) ==
    \E i \in 1..(Len(s) - Len(sub) + 1) : SubSeq(s, i, i + Len(sub) - 1) = sub

\* whether s continues with word at position i
StartsAt(s, i, word) ==
    /\ i + Len(word) - 1 <= Len(s)
    /\ SubSeq(s, i, i + Len(word) - 1) = word

\* String(n) of a non-negative integer
RECURSIVE NatToChars(_)
NatToChars(n) ==
    IF n < 10 THEN <<Digits[n + 1]>>
    ELSE NatToChars(n \div 10) \o <<Digits[(n % 10) + 1]>>
IntToChars(n) == IF n < 0 THEN <<"-">> \o NatToChars(-n) ELSE NatToChars(n)

\* the end of the run of digits that starts at position i
RECURSIVE DigitsEnd(_, _)
DigitsEnd(s, i) ==
    IF i <= Len(s) /\ IsDigit(s[i]) THEN DigitsEnd(s, i + 1) ELSE i
\* the value of the digits s[i..j-1] continuing the value acc
RECURSIVE DigitsValue(_, _, _, _)
DigitsValue(s, i, j, acc) ==
    IF i >= j THEN acc ELSE DigitsValue(s, i + 1, j, acc * 10 + DigitVal(s[i]))

RECURSIVE SkipWs(_, _)
SkipWs(s, i) == IF i <= Len(s) /\ IsSpace(s[i]) THEN SkipWs(s, i + 1) ELSE i

----------------------------------------------------------------------------
(* JavaScript values                                                       *)

Undefined == [t |-> "undefined", v |-> 0]
Null      == [t |-> "null", v |-> 0]
NaN       == [t |-> "nan", v |-> 0]
Bool(b)   == [t |-> "bool", v |-> b]
Num(n)    == [t |-> "num", v |-> n]
Str(s)    == [t |-> "str", v |-> s]
Arr(xs)   == [t |-> "arr", v |-> xs]
\* an object is the sequence of its own properties [k |-> name, x |-> value]
Obj(ps)   == [t |-> "obj", v |-> ps]

\* ToBoolean
Truthy(x) ==
    CASE x.t = "undefined" -> FALSE
      [] x.t = "null"      -> FALSE
      [] x.t = "nan"       -> FALSE
      [] x.t = "bool"      -> x.v
      [] x.t = "num"       -> x.v # 0
      [] x.t = "str"       -> x.v # <<>>
      [] OTHER             -> TRUE

\* a || b
Or(a, b) == IF Truthy(a) THEN a ELSE b

\* x.key for a value x that is not null or undefined: an own property of an
\* object (the last one of that name), undefined otherwise
Get(x, key) ==
    IF x.t = "obj" /\ \E i \in 1..Len(x.v) : x.v[i].k = key
    THEN LET last == CHOOSE i \in 1..Len(x.v) :
                        /\ x.v[i].k = key
                        /\ \A j \in (i + 1)..Len(x.v) : x.v[j].k # key
         IN  x.v[last].x
    ELSE Undefined

\* String(x), as the Error constructor converts its message
RECURSIVE StringOf(_)
RECURSIVE JoinFrom(_, _)
JoinFrom(xs, i) ==
    IF i > Len(xs) THEN <<>>
    ELSE (IF xs[i].t \in {"null", "undefined"} THEN <<>> ELSE StringOf(xs[i]))
         \o (IF i < Len(xs) THEN <<",">> ELSE <<>>)
         \o JoinFrom(xs, i + 1)
StringOf(x) ==
    CASE x.t = "str"       -> x.v
      [] x.t = "num"       -> IntToChars(x.v)
      [] x.t = "bool"      -> IF x.v THEN <<"t","r","u","e">>
                              ELSE <<"f","a","l","s","e">>
      [] x.t = "null"      -> <<"n","u","l","l">>
      [] x.t = "undefined" -> <<"u","n","d","e","f","i","n","e","d">>
      [] x.t = "nan"       -> <<"N","a","N">>
      [] x.t = "arr"       -> JoinFrom(x.v, 1)
      [] OTHER             ->
           <<"[","o","b","j","e","c","t"," ","O","b","j","e","c","t","]">>

\* parseInt(h) of a header value: null (no such header) becomes "null";
\* leading white space, a sign and the leading digits are read; NaN if
\* there is no digit
ParseInt(h) ==
    LET s == StringOf(h)
        i == SkipWs(s, 1)
        neg == i <= Len(s) /\ s[i] = "-"
        j == IF i <= Len(s) /\ s[i] \in {"-", "+"} THEN i + 1 ELSE i
        e == DigitsEnd(s, j)
    IN  IF e = j THEN NaN
        ELSE Num((IF neg THEN -1 ELSE 1) * DigitsValue(s, j, e, 0))

----------------------------------------------------------------------------
(* JSON.parse on the characters of a text: objects, arrays, strings without *)
(* escapes, integers, true, false and null.  A result is                    *)
(* [ok, val, pos]: pos is the position after the value.                     *)

ParseFail == [ok |-> FALSE, val |-> Undefined, pos |-> 0]
Parsed(x, p) == [ok |-> TRUE, val |-> x, pos |-> p]

\* the characters of a string whose opening quote is before position i
RECURSIVE ParseStringFrom(_, _, _)
ParseStringFrom(s, i, acc) ==
    IF i > Len(s) THEN ParseFail
    ELSE IF s[i] = "\"" THEN Parsed(Str(acc), i + 1)
    ELSE IF s[i] \in {"\\", "\n", "\t", "\r"} THEN ParseFail
    ELSE ParseStringFrom(s, i + 1, Append(acc, s[i]))

\* an integer at position i: -? (0 | [1-9][0-9]*), not followed by . e E
ParseNumber(s, i) ==
    LET neg == s[i] = "-"
        j == IF neg THEN i + 1 ELSE i
        e == DigitsEnd(s, j)
    IN  IF e = j THEN ParseFail
        ELSE IF s[j] = "0" /\ e > j + 1 THEN ParseFail
        ELSE IF e <= Len(s) /\ s[e] \in {".", "e", "E"} THEN ParseFail
        ELSE Parsed(Num((IF neg THEN -1 ELSE 1) * DigitsValue(s, j, e, 0)), e)

RECURSIVE ParseValue(_, _)
RECURSIVE ParseElements(_, _, _)
RECURSIVE ParseMembers(_, _, _)

\* the elements of an array, the first of them at or after position i
ParseElements(s, i, acc) ==
    LET r == ParseValue(s, i)
        j == SkipWs(s, r.pos)
    IN  IF ~r.ok \/ j > Len(s) THEN ParseFail
        ELSE IF s[j] = "," THEN ParseElements(s, j + 1, Append(acc, r.val))
        ELSE IF s[j] = "]" THEN Parsed(Arr(Append(acc, r.val)), j + 1)
        ELSE ParseFail

\* the members of an object, the first of them at or after position i
ParseMembers(s, i, acc) ==
    LET k0 == SkipWs(s, i)
        key == IF k0 <= Len(s) /\ s[k0] = "\""
               THEN ParseStringFrom(s, k0 + 1, <<>>) ELSE ParseFail
        c == IF key.ok THEN SkipWs(s, key.pos) ELSE 0
        r == IF key.ok /\ c <= Len(s) /\ s[c] = ":"
             THEN ParseValue(s, c + 1) ELSE ParseFail
        j == IF r.ok THEN SkipWs(s, r.pos) ELSE 0
        ps == IF r.ok THEN Append(acc, [k |-> key.val.v, x |-> r.val]) ELSE acc
    IN  IF ~r.ok \/ j > Len(s) THEN ParseFail
        ELSE IF s[j] = "," THEN ParseMembers(s, j + 1, ps)
        ELSE IF s[j] = "}" THEN Parsed(Obj(ps), j + 1)
        ELSE ParseFail

ParseValue(s, i) ==
    LET j == SkipWs(s, i)
    IN  IF j > Len(s) THEN ParseFail
        ELSE IF s[j] = "{" THEN
            (LET k == SkipWs(s, j + 1)
             IN  IF k <= Len(s) /\ s[k] = "}" THEN Parsed(Obj(<<>>), k + 1)
                 ELSE ParseMembers(s, j + 1, <<>>))
        ELSE IF s[j] = "[" THEN
            (LET k == SkipWs(s, j + 1)
             IN  IF k <= Len(s) /\ s[k] = "]" THEN Parsed(Arr(<<>>), k + 1)
                 ELSE ParseElements(s, j + 1, <<>>))
        ELSE IF s[j] = "\"" THEN ParseStringFrom(s, j + 1, <<>>)
        ELSE IF s[j] = "-" \/ IsDigit(s[j]) THEN ParseNumber(s, j)
        ELSE IF StartsAt(s, j, <<"t","r","u","e">>) THEN Parsed(Bool(TRUE), j + 4)
        ELSE IF StartsAt(s, j, <<"f","a","l","s","e">>)
             THEN Parsed(Bool(FALSE), j + 5)
        ELSE IF StartsAt(s, j, <<"n","u","l","l">>) THEN Parsed(Null, j + 4)
        ELSE ParseFail

\* JSON.parse(text): [ok |-> TRUE, val |-> value], or ok FALSE where
\* JSON.parse throws a SyntaxError
JSON_parse(text) ==
    LET r == ParseValue(text, 1)
    IN  IF r.ok /\ SkipWs(text, r.pos) > Len(text)
        THEN [ok |-> TRUE, val |-> r.val]
        ELSE [ok |-> FALSE, val |-> Undefined]


----------------------------------------------------------------------------
(* The string literals of api.js                                            *)

\* 'Session expired. Please login again.'
MSG_SESSION_EXPIRED ==
    <<"S","e","s","s","i","o","n"," ","e","x","p","i","r","e","d","."," ","P",
      "l","e","a","s","e"," ","l","o","g","i","n"," ","a","g","a","i","n",
      ".">>
\* 'Request timeout. Please check your connection and try again.'
MSG_TIMEOUT ==
    <<"R","e","q","u","e","s","t"," ","t","i","m","e","o","u","t","."," ","P",
      "l","e","a","s","e"," ","c","h","e","c","k"," ","y","o","u","r"," ","c",
      "o","n","n","e","c","t","i","o","n"," ","a","n","d"," ","t","r","y"," ",
      "a","g","a","i","n",".">>
\* 'Unable to connect to server. Please check your internet connection.'
MSG_CONNECT ==
    <<"U","n","a","b","l","e"," ","t","o"," ","c","o","n","n","e","c","t"," ",
      "t","o"," ","s","e","r","v","e","r","."," ","P","l","e","a","s","e"," ",
      "c","h","e","c","k"," ","y","o","u","r"," ","i","n","t","e","r","n","e",
      "t"," ","c","o","n","n","e","c","t","i","o","n",".">>
\* 'message'
KEY_message ==
    <<"m","e","s","s","a","g","e">>
\* 'error'
KEY_error ==
    <<"e","r","r","o","r">>
\* 'detail'
KEY_detail ==
    <<"d","e","t","a","i","l">>
\* 'expired'
STR_expired ==
    <<"e","x","p","i","r","e","d">>
\* 'token'
STR_token ==
    <<"t","o","k","e","n">>
\* 'Invalid request. Please check your input.'
MSG_400 ==
    <<"I","n","v","a","l","i","d"," ","r","e","q","u","e","s","t","."," ","P",
      "l","e","a","s","e"," ","c","h","e","c","k"," ","y","o","u","r"," ","i",
      "n","p","u","t",".">>
\* 'Please log in to continue.'
MSG_401 ==
    <<"P","l","e","a","s","e"," ","l","o","g"," ","i","n"," ","t","o"," ","c",
      "o","n","t","i","n","u","e",".">>
\* 'You don't have permission to do this.'
MSG_403 ==
    <<"Y","o","u"," ","d","o","n","'","t"," ","h","a","v","e"," ","p","e","r",
      "m","i","s","s","i","o","n"," ","t","o"," ","d","o"," ","t","h","i","s",
      ".">>
\* 'The requested item was not found.'
MSG_404 ==
    <<"T","h","e"," ","r","e","q","u","e","s","t","e","d"," ","i","t","e","m",
      " ","w","a","s"," ","n","o","t"," ","f","o","u","n","d",".">>
\* 'Request timeout. Please try again.'
MSG_408 ==
    <<"R","e","q","u","e","s","t"," ","t","i","m","e","o","u","t","."," ","P",
      "l","e","a","s","e"," ","t","r","y"," ","a","g","a","i","n",".">>
\* 'Too many requests. Please wait a moment.'
MSG_429 ==
    <<"T","o","o"," ","m","a","n","y"," ","r","e","q","u","e","s","t","s",".",
      " ","P","l","e","a","s","e"," ","w","a","i","t"," ","a"," ","m","o","m",
      "e","n","t",".">>
\* 'Server error. Please try again later.'
MSG_500 ==
    <<"S","e","r","v","e","r"," ","e","r","r","o","r","."," ","P","l","e","a",
      "s","e"," ","t","r","y"," ","a","g","a","i","n"," ","l","a","t","e","r",
      ".">>
\* 'Server is temporarily unavailable.'
MSG_502 ==
    <<"S","e","r","v","e","r"," ","i","s"," ","t","e","m","p","o","r","a","r",
      "i","l","y"," ","u","n","a","v","a","i","l","a","b","l","e",".">>
\* 'Service unavailable. Please try again later.'
MSG_503 ==
    <<"S","e","r","v","i","c","e"," ","u","n","a","v","a","i","l","a","b","l",
      "e","."," ","P","l","e","a","s","e"," ","t","r","y"," ","a","g","a","i",
      "n"," ","l","a","t","e","r",".">>
\* 'Request failed ('
MSG_FAILED ==
    <<"R","e","q","u","e","s","t"," ","f","a","i","l","e","d"," ","(">>

----------------------------------------------------------------------------
(* ApiError, getErrorMessage, parseResponseOnce                            *)

\* ApiError with isServerError = status > 500
ApiErrorAbove500(message, status, payload) ==
    [ name           |-> "ApiError",
      message        |-> StringOf(message),
      status         |-> status,
      payload        |-> payload,
      isNetworkError |-> (status = Num(0) \/ status = Undefined),
      isRateLimited  |-> (status = Num(429)),
      isAuthError    |-> (status = Num(401) \/ status = Num(403)),
      isNotFound     |-> (status = Num(404)),
      isServerError  |-> (status.t = "num" /\ status.v > 500) ]

\* class ApiError: the flags are set by the constructor from status;
\* super(message) stores String(message)
ApiError(message, status, payload) ==
    [ name           |-> "ApiError",
      message        |-> StringOf(message),
      status         |-> status,
      payload        |-> payload,
      isNetworkError |-> (status = Num(0) \/ status = Undefined),
      isRateLimited  |-> (status = Num(429)),
      isAuthError    |-> (status = Num(401) \/ status = Num(403)),
      isNotFound     |-> (status = Num(404)),
      isServerError  |-> (status.t = "num" /\ status.v >= 500) ]

\* what fetch() and res.text() reject with on a network failure, and what
\* calling msg.toLowerCase throws when msg is no string
TypeError == [name |-> "TypeError", status |-> Undefined]
\* what fetch() rejects with when its signal is aborted
AbortError == [name |-> "AbortError", status |-> Undefined]

\* getErrorMessage(status): messages[status] || `Request failed (${status})`
getErrorMessage(status) ==
    CASE status = 400 -> MSG_400
      [] status = 401 -> MSG_401
      [] status = 403 -> MSG_403
      [] status = 404 -> MSG_404
      [] status = 408 -> MSG_408
      [] status = 429 -> MSG_429
      [] status = 500 -> MSG_500
      [] status = 502 -> MSG_502
      [] status = 503 -> MSG_503
      [] OTHER        -> MSG_FAILED \o IntToChars(status) \o <<")">>

\* parseResponseOnce handing out the list inside a { members: [...] } envelope
parseResponseUnwrapped(text) ==
    LET data == IF text = <<>> THEN Null
                ELSE IF JSON_parse(text).ok THEN JSON_parse(text).val
                ELSE Str(text)
        members == Get(data, <<"m","e","m","b","e","r","s">>)
    IN  IF members.t = "arr" THEN members ELSE data

\* parseResponseOnce: data = text ? JSON.parse(text) : null, and the raw
\* text when JSON.parse throws
parseResponseOnce(text) ==
    IF text = <<>> THEN Null
    ELSE LET r == JSON_parse(text)
         IN  IF r.ok THEN r.val ELSE Str(text)

\* data.message || data.error || data.detail
BodyMessage(data) ==
    Or(Or(Get(data, KEY_message), Get(data, KEY_error)), Get(data, KEY_detail))

\* data && (data.message || data.error || data.detail)
\*   ? (data.message || data.error || data.detail) : fallback
MessageOr(data, fallback) ==
    IF Truthy(data) /\ Truthy(BodyMessage(data))
    THEN BodyMessage(data) ELSE Str(fallback)

\* lines 58-60 with the default of the message table, getErrorMessage(401)
AuthMessageFromTable(data) == MessageOr(data, getErrorMessage(401))

\* request, lines 58-60: the message of a 401
AuthMessage(data) == MessageOr(data, MSG_SESSION_EXPIRED)

\* the message of another status taken from the table alone
ErrorMessageFromTable(data, status) == Str(getErrorMessage(status))

\* request, lines 80-82: the message of another status
ErrorMessage(data, status) == MessageOr(data, getErrorMessage(status))

\* line 63 taking every message of a 401 for an expired token
AnyMessage(msg) == TRUE

\* request, line 63, for a string msg:
\* msg.toLowerCase().includes('expired') || msg.toLowerCase().includes('token')
TokenExpired(msg) ==
    \/ Includes(ToLowerCase(msg), STR_expired)
    \/ Includes(ToLowerCase(msg), STR_token)

\* line 74 with retries <= MAX_RETRIES
RetryRateLimitInclusive(status, n) == status = 429 /\ n <= MAX_RETRIES

\* request, line 74
RetryRateLimit(status, n) == status = 429 /\ n < MAX_RETRIES

\* line 75 with a default that doubles: RETRY_DELAY * 2 ** retries
RetryAfterDoubling(header, n) ==
    LET hint == ParseInt(header)
    IN  IF Truthy(hint) THEN hint.v ELSE RETRY_DELAY * 2^n

\* request, line 75:
\* parseInt(res.headers.get('Retry-After')) || RETRY_DELAY * (retries + 1)
RetryAfter(header, n) ==
    LET hint == ParseInt(header)
    IN  IF Truthy(hint) THEN hint.v ELSE RETRY_DELAY * (n + 1)

\* line 99 retrying a transport failure of the first attempt only
RetryNetworkOnce(error, n) == n < 1 /\ ~Truthy(error.status)

\* line 99 with retries <= MAX_RETRIES
RetryNetworkInclusive(error, n) == n <= MAX_RETRIES /\ ~Truthy(error.status)

\* request, line 99
RetryNetwork(error, n) == n < MAX_RETRIES /\ ~Truthy(error.status)

\* line 100 without the factor (retries + 1)
BackoffFixed(n) == RETRY_DELAY

\* request, line 100
BackoffDelay(n) == RETRY_DELAY * (n + 1)

----------------------------------------------------------------------------
(* localStorage: the four credential entries; 0 is an absent entry         *)

CredKeys == {"adminToken", "adminData", "memberToken", "memberData"}

\* the number of different values an entry can hold
NumCredValues == 1

removeItem(st, key) == [st EXCEPT ![key] = 0]

\* lines 64-67 removing the admin entries alone, as AuthContext's logout does
ClearAdminOnly(st) == removeItem(removeItem(st, "adminToken"), "adminData")

\* lines 64-67 run only when a read finds an admin token stored
ClearAfterRead(st) ==
    IF st["adminToken"] # 0 THEN [k \in CredKeys |-> 0] ELSE st

\* request, lines 64-67
ClearCredentials(st) ==
    removeItem(removeItem(removeItem(removeItem(st,
        "adminToken"), "adminData"), "memberToken"), "memberData")

\* the entries removed on every 401 and 403 (every isAuthError status)
StorageAfterAuthError(st, status, data) ==
    IF status \in {401, 403} THEN ClearCredentials(st) ELSE st

\* localStorage after request has handled a response (lines 55-71): the
\* entries are removed in the 401 branch alone, when msg is a string that
\* holds 'expired' or 'token'; calling toLowerCase on another msg throws
\* before anything is removed
StorageAfter(st, status, data) ==
    IF /\ ~(status >= 200 /\ status <= 299)
       /\ status = 401
       /\ AuthMessage(data).t = "str"
       /\ TokenExpired(AuthMessage(data).v)
    THEN ClearCredentials(st)
    ELSE st


----------------------------------------------------------------------------
(* Body texts and Retry-After header values the server may send            *)

\* '{"members":[{"id":1,"name":"A"}],"total":1}'
TEXT_members ==
    <<"{","\"","m","e","m","b","e","r","s","\"",":","[","{","\"","i","d","\"",
      ":","1",",","\"","n","a","m","e","\"",":","\"","A","\"","}","]",",",
      "\"","t","o","t","a","l","\"",":","1","}">>
\* '<html>Bad Gateway</html>'
TEXT_html ==
    <<"<","h","t","m","l",">","B","a","d"," ","G","a","t","e","w","a","y","<",
      "/","h","t","m","l",">">>
\* '{"detail":"Token Expired"}'
TEXT_token_expired ==
    <<"{","\"","d","e","t","a","i","l","\"",":","\"","T","o","k","e","n"," ",
      "E","x","p","i","r","e","d","\"","}">>
\* '{"message":"Invalid credentials"}'
TEXT_bad_credentials ==
    <<"{","\"","m","e","s","s","a","g","e","\"",":","\"","I","n","v","a","l",
      "i","d"," ","c","r","e","d","e","n","t","i","a","l","s","\"","}">>
\* '{"detail":{"code":7}}'
TEXT_detail_object ==
    <<"{","\"","d","e","t","a","i","l","\"",":","{","\"","c","o","d","e","\"",
      ":","7","}","}">>
\* '{"message":"Token'
TEXT_truncated ==
    <<"{","\"","m","e","s","s","a","g","e","\"",":","\"","T","o","k","e","n">>
\* '{"message":"","error":"Admin only"}'
TEXT_forbidden ==
    <<"{","\"","m","e","s","s","a","g","e","\"",":","\"","\"",",","\"","e",
      "r","r","o","r","\"",":","\"","A","d","m","i","n"," ","o","n","l","y",
      "\"","}">>
\* '{"error":"Member not found"}'
TEXT_not_found ==
    <<"{","\"","e","r","r","o","r","\"",":","\"","M","e","m","b","e","r"," ",
      "n","o","t"," ","f","o","u","n","d","\"","}">>
\* '{"detail":"Rate limit exceeded"}'
TEXT_rate_limit ==
    <<"{","\"","d","e","t","a","i","l","\"",":","\"","R","a","t","e"," ","l",
      "i","m","i","t"," ","e","x","c","e","e","d","e","d","\"","}">>
\* '{"detail":"db down"}'
TEXT_db_down ==
    <<"{","\"","d","e","t","a","i","l","\"",":","\"","d","b"," ","d","o","w",
      "n","\"","}">>
\* '{"detail":[{"msg":"field required"}]}'
TEXT_validation ==
    <<"{","\"","d","e","t","a","i","l","\"",":","[","{","\"","m","s","g","\"",
      ":","\"","f","i","e","l","d"," ","r","e","q","u","i","r","e","d","\"",
      "}","]","}">>
\* '2'
HDR_seconds ==
    <<"2">>
\* 'Wed, 21 Oct 2026 07:28:00 GMT'
\* '{"detail":"Invalid token"}'
TEXT_invalid_token ==
    <<"{","\"","d","e","t","a","i","l","\"",":","\"","I","n","v","a","l","i",
      "d"," ","t","o","k","e","n","\"","}">>

\* '{"ok":false}'
TEXT_no_message ==
    <<"{","\"","o","k","\"",":","f","a","l","s","e","}">>

HDR_zero ==
    <<"0">>

HDR_date ==
    <<"W","e","d",","," ","2","1"," ","O","c","t"," ","2","0","2","6"," ","0",
      "7",":","2","8",":","0","0"," ","G","M","T">>

----------------------------------------------------------------------------
(* The server's responses: status, the Retry-After header as               *)
(* res.headers.get returns it (null when absent) and the body text         *)

Response(status, retryAfter, text) ==
    [status |-> status, retryAfter |-> retryAfter, text |-> text]

Responses ==
    << Response(200, Null, TEXT_members),
       Response(200, Null, TEXT_html),
       Response(204, Null, <<>>),
       Response(401, Null, TEXT_token_expired),
       Response(401, Null, TEXT_bad_credentials),
       Response(401, Null, <<>>),
       Response(401, Null, TEXT_detail_object),
       Response(401, Null, TEXT_truncated),
       Response(403, Null, TEXT_forbidden),
       Response(404, Null, TEXT_not_found),
       Response(422, Null, TEXT_validation),
       Response(429, Null, TEXT_rate_limit),
       Response(429, Str(HDR_seconds), <<>>),
       Response(429, Str(HDR_date), TEXT_rate_limit),
       Response(500, Null, TEXT_db_down),
       Response(502, Null, TEXT_html),
       Response(429, Str(HDR_zero), TEXT_rate_limit),
       Response(401, Null, TEXT_invalid_token),
       Response(401, Null, TEXT_no_message) >>

\* res.ok
Ok(status) == status >= 200 /\ status <= 299

\* the options of a call: the method and whose token the Authorization
\* header carries (api.authHeaders)
Options ==
    { [method |-> "GET", auth |-> "none"],
      [method |-> "GET", auth |-> "member"],
      [method |-> "PUT", auth |-> "admin"] }

\* the calls of request that can be in flight together, and the one call
\* followed in Spec
AllCalls == {1, 2, 3}
Calls == {1}
\* the two calls followed together in SpecConc; of these the history of the
\* attempts is kept, to compare them
Pair == {2, 3}

----------------------------------------------------------------------------
VARIABLES
    storage,   \* localStorage: credential key -> 0 (absent) or a value
    pc,        \* where each call is: idle, fetch, text, sleep, resolved, rejected
    options,   \* the options each call was made with
    retries,   \* request's parameter retries in the current attempt
    res,       \* the response of the current attempt (index in Responses), 0: none
    sleeping,  \* the milliseconds passed to sleep() before the next attempt
    timers,    \* the armed setTimeout timers: [n |-> the retries of the
               \* attempt that armed it, ms |-> its delay]
    outcome,   \* how the call settled: resolved with data, rejected with error
    fetches,   \* the number of times the call has called fetch()
    last,      \* how the latest ended attempt ended
    log,       \* how the ended attempts of the call have ended
    hist,      \* of a call of Pair: what each ended attempt met, in order
    waited,    \* the milliseconds after which a pending fetch was aborted
    before,    \* localStorage as it was when the call was made
    reads,     \* how often the body of the current response has been read
    served,    \* how often the server has carried out the request of the call
    authToken, \* AuthContext: the state token (0: null)
    route,     \* the location the router shows
    caller,    \* the AdminDashboard function awaiting each call ("none": none)
    caught,    \* what that function has done with the settled call:
               \* "no" (nothing yet), "then" (it went on), "catch"
    members,   \* MembersPage: the members displayed
    loading,   \* MembersPage: the state loading
    loadError, \* MembersPage: whether the state error holds an error
    department,\* MembersPage: the filter chosen
    page,      \* MembersPage: the state page
    totalPages,\* MembersPage: the state totalPages
    total,     \* MembersPage: the state total
    pending,   \* MembersPage: the effect of lines 67-69 has yet to run
    query,     \* the query each fetchMembers() in progress was made with
    latest,    \* the call of the fetchMembers() started most recently
    returned,  \* what the server returned to that fetchMembers()
    held       \* the number of pages of members the server holds

apiVars == <<storage, pc, options, retries, res, sleeping, timers, outcome,
             fetches, last, log, hist, waited, before, reads, served>>
pageVars == <<authToken, route, caller, caught>>
listVars == <<members, loading, loadError, department, page, totalPages, total,
              pending, query, latest, returned, held>>
vars == <<apiVars, pageVars, listVars>>

\* no query: the call is not one of fetchMembers
NoQuery == [department |-> "", page |-> 0]
\* nothing returned yet
NoData == [members |-> <<>>, total_pages |-> 0, total |-> 0, none |-> TRUE]

Pending == [kind |-> "pending"]

Constructed ==
    /\ storage \in [CredKeys -> 0..NumCredValues]
    /\ pc = [c \in AllCalls |-> "idle"]
    /\ options = [c \in AllCalls |-> [method |-> "GET", auth |-> "none"]]
    /\ retries = [c \in AllCalls |-> 0]
    /\ res = [c \in AllCalls |-> 0]
    /\ sleeping = [c \in AllCalls |-> 0]
    /\ timers = [c \in AllCalls |-> {}]
    /\ outcome = [c \in AllCalls |-> Pending]
    /\ fetches = [c \in AllCalls |-> 0]
    /\ last = [c \in AllCalls |-> "none"]
    /\ log = [c \in AllCalls |-> {}]
    /\ hist = [c \in AllCalls |-> <<>>]
    /\ waited = [c \in AllCalls |-> 0]
    /\ before = [c \in AllCalls |-> storage]
    /\ reads = [c \in AllCalls |-> 0]
    /\ served = [c \in AllCalls |-> 0]
    \* AuthProvider, lines 39-45: token starts as localStorage's adminToken
    /\ authToken = storage["adminToken"]
    /\ route = "/admin"
    /\ caller = [c \in AllCalls |-> "none"]
    /\ caught = [c \in AllCalls |-> "no"]
    \* MembersPage, lines 16-27: the initial states; the page has rendered
    \* and its effects have yet to run
    /\ members = <<>>
    /\ loading = TRUE
    /\ loadError = FALSE
    /\ department = ""
    /\ page = 1
    /\ totalPages = 1
    /\ total = 0
    /\ pending = TRUE
    /\ query = [c \in AllCalls |-> NoQuery]
    /\ latest = 0
    /\ returned = NoData

\* the most pages of members the server holds, and the few it holds where
\* the members page is not followed page by page
MaxPages == 7
FewPages == 3

Init ==
    /\ Constructed
    /\ held = FewPages

\* the attempt of call c ends in the way named by kind
Ended(c, kind) ==
    /\ last' = [last EXCEPT ![c] = kind]
    /\ log' = [log EXCEPT ![c] = @ \cup {kind}]
    /\ hist' = IF c \in Pair
               THEN [hist EXCEPT
                        ![c] = Append(@, [kind |-> kind, res |-> res[c]])]
               ELSE hist

\* return data
Resolve(c, data) ==
    /\ pc' = [pc EXCEPT ![c] = "resolved"]
    /\ outcome' = [outcome EXCEPT ![c] = [kind |-> "resolved", data |-> data]]
    /\ UNCHANGED sleeping

\* the promise of the call rejects with error
Reject(c, error) ==
    /\ pc' = [pc EXCEPT ![c] = "rejected"]
    /\ outcome' = [outcome EXCEPT ![c] = [kind |-> "rejected", error |-> error]]
    /\ UNCHANGED sleeping

\* await sleep(ms); return request(url, options, retries + 1)
SleepThenRetry(c, ms) ==
    /\ pc' = [pc EXCEPT ![c] = "sleep"]
    /\ sleeping' = [sleeping EXCEPT ![c] = ms]
    /\ UNCHANGED outcome

\* the catch block without its AbortError branch: a timeout is retried as
\* a network failure is
CatchRetryingAbort(c, error) ==
    IF error.name = "ApiError"
    THEN Reject(c, error)
    ELSE IF RetryNetwork(error, retries[c])
    THEN SleepThenRetry(c, BackoffDelay(retries[c]))
    ELSE Reject(c, ApiError(Str(MSG_CONNECT), Num(0), Undefined))

\* the catch block rethrowing the error it caught once the retries are used up
CatchRethrowing(c, error) ==
    IF error.name = "AbortError"
    THEN Reject(c, ApiError(Str(MSG_TIMEOUT), Num(408), Undefined))
    ELSE IF error.name = "ApiError"
    THEN Reject(c, error)
    ELSE IF RetryNetwork(error, retries[c])
    THEN SleepThenRetry(c, BackoffDelay(retries[c]))
    ELSE Reject(c, error)

\* the catch block of request, lines 88-108
Catch(c, error) ==
    IF error.name = "AbortError"
    THEN Reject(c, ApiError(Str(MSG_TIMEOUT), Num(408), Undefined))
    ELSE IF error.name = "ApiError"
    THEN Reject(c, error)
    ELSE IF RetryNetwork(error, retries[c])
    THEN SleepThenRetry(c, BackoffDelay(retries[c]))
    ELSE Reject(c, ApiError(Str(MSG_CONNECT), Num(0), Undefined))

\* retries kept in one counter of the module, not in a parameter of each call
AttemptSharedRetries(c, n) ==
    /\ retries' = [d \in AllCalls |-> n]
    /\ timers' = [timers EXCEPT ![c] = @ \cup {[n |-> n, ms |-> TIMEOUT_MS]}]
    /\ fetches' = [fetches EXCEPT ![c] = @ + 1]
    /\ res' = [res EXCEPT ![c] = 0]
    /\ reads' = [reads EXCEPT ![c] = 0]
    /\ pc' = [pc EXCEPT ![c] = "fetch"]

\* the recursive calls of lines 77 and 101 leaving out retries + 1: every
\* attempt starts with retries = 0 (the count of fetches stops at 5)
AttemptForgettingRetries(c, n) ==
    /\ retries' = [retries EXCEPT ![c] = 0]
    /\ timers' = [timers EXCEPT ![c] = @ \cup {[n |-> 0, ms |-> TIMEOUT_MS]}]
    /\ fetches' = [fetches EXCEPT ![c] = IF @ < 5 THEN @ + 1 ELSE @]
    /\ res' = [res EXCEPT ![c] = 0]
    /\ reads' = [reads EXCEPT ![c] = 0]
    /\ pc' = [pc EXCEPT ![c] = "fetch"]

\* request, lines 43-49: a new AbortController, its timer armed, fetch called
Attempt(c, n) ==
    /\ retries' = [retries EXCEPT ![c] = n]
    /\ timers' = [timers EXCEPT ![c] = @ \cup {[n |-> n, ms |-> TIMEOUT_MS]}]
    /\ fetches' = [fetches EXCEPT ![c] = @ + 1]
    /\ res' = [res EXCEPT ![c] = 0]
    /\ reads' = [reads EXCEPT ![c] = 0]
    /\ pc' = [pc EXCEPT ![c] = "fetch"]

\* request(url, options) is called: retries = 0
request(c, opts) ==
    /\ pc[c] = "idle"
    /\ options' = [options EXCEPT ![c] = opts]
    /\ before' = [before EXCEPT ![c] = storage]
    /\ Attempt(c, 0)
    /\ UNCHANGED <<storage, sleeping, outcome, last, log, hist, waited, served>>

\* a caller that is not modelled further calls request
Request(c, opts) ==
    /\ request(c, opts)
    /\ UNCHANGED <<pageVars, listVars>>

\* whether the server carried out a request it answers with this status:
\* once when it answers 2xx, not when it refuses with an error status
Carried(status) == IF status >= 200 /\ status <= 299 THEN 1 ELSE 0

\* fetch resolves with response r; clearTimeout(timeoutId), line 51; then
\* parseResponseOnce calls res.text(), line 30, and awaits it
FetchResolves(c, r) ==
    /\ pc[c] = "fetch"
    /\ res' = [res EXCEPT ![c] = r]
    /\ timers' = [timers EXCEPT ![c] = {t \in @ : t.n # retries[c]}]
    /\ pc' = [pc EXCEPT ![c] = "text"]
    /\ reads' = [reads EXCEPT ![c] = @ + 1]
    /\ served' = [served EXCEPT ![c] = @ + Carried(Responses[r].status)]
    /\ UNCHANGED <<storage, options, retries, sleeping, outcome, fetches,
                   last, log, hist, waited, before>>
    /\ UNCHANGED <<pageVars, listVars>>

\* fetch rejects (DNS, connection refused, offline): the catch block runs;
\* the timer of the attempt stays armed
FetchRejects(c) ==
    /\ pc[c] = "fetch"
    /\ Catch(c, TypeError)
    /\ Ended(c, "network")
    /\ UNCHANGED <<storage, options, retries, res, timers, fetches, waited,
                   before, reads>>
    /\ UNCHANGED <<served, pageVars, listVars>>

\* one AbortController kept for all attempts of the call: whichever timer
\* fires aborts the fetch that is pending
TimeoutFiresSharedController(c) ==
    /\ timers[c] # {}
    /\ LET t == CHOOSE k \in timers[c] : \A j \in timers[c] : k.n <= j.n
       IN  /\ timers' = [timers EXCEPT ![c] = @ \ {t}]
           /\ IF pc[c] = "fetch"
              THEN /\ Catch(c, AbortError)
                   /\ Ended(c, "timeout")
                   /\ waited' = [waited EXCEPT ![c] = t.ms]
              ELSE UNCHANGED <<pc, outcome, sleeping, last, log, hist, waited>>
    /\ UNCHANGED <<storage, options, retries, res, fetches, before, reads>>
    /\ UNCHANGED <<served, pageVars, listVars>>

\* The oldest armed timer of call c fires after TIMEOUT_MS: its controller
\* aborts.  The fetch of that attempt, if still pending, rejects with an
\* AbortError; a controller whose fetch has ended aborts nothing.
TimeoutFires(c) ==
    /\ timers[c] # {}
    /\ LET t == CHOOSE k \in timers[c] : \A j \in timers[c] : k.n <= j.n
       IN  /\ timers' = [timers EXCEPT ![c] = @ \ {t}]
           /\ IF pc[c] = "fetch" /\ t.n = retries[c]
              THEN /\ Catch(c, AbortError)
                   /\ Ended(c, "timeout")
                   /\ waited' = [waited EXCEPT ![c] = t.ms]
              ELSE UNCHANGED <<pc, outcome, sleeping, last, log, hist, waited>>
    /\ UNCHANGED <<storage, options, retries, res, fetches, before, reads>>
    /\ UNCHANGED <<served, pageVars, listVars>>

\* res.text() rejects: the connection broke while the body was read
TextRejects(c) ==
    /\ pc[c] = "text"
    /\ Catch(c, TypeError)
    /\ Ended(c, "body")
    /\ UNCHANGED <<storage, options, retries, res, timers, fetches, waited,
                   before, reads>>
    /\ UNCHANGED <<served, pageVars, listVars>>

\* a handler that reads the body of a failed response once more (res.json())
BodyReadAgainOnError(status) == IF Ok(status) THEN 0 ELSE 1

\* how often request itself reads the body of the response it handles
\* (lines 53-87): never, it uses the data parseResponseOnce returned
BodyReadsInRequest(status) == 0

\* res.text() resolves: request, lines 53-87
TextResolves(c) ==
    /\ pc[c] = "text"
    /\ LET status == Responses[res[c]].status
           data == parseResponseOnce(Responses[res[c]].text)
       IN  /\ storage' = StorageAfter(storage, status, data)
           /\ IF Ok(status)
              THEN Resolve(c, data) /\ Ended(c, "ok")
              ELSE IF status = 401
              THEN /\ Ended(c, "401")
                   /\ IF AuthMessage(data).t # "str"
                      THEN \* msg.toLowerCase is not a function
                           Catch(c, TypeError)
                      ELSE Catch(c, ApiError(AuthMessage(data), Num(status),
                                             data))
              ELSE IF RetryRateLimit(status, retries[c])
              THEN /\ SleepThenRetry(c,
                          RetryAfter(Responses[res[c]].retryAfter, retries[c]))
                   /\ Ended(c, "429")
              ELSE /\ Catch(c, ApiError(ErrorMessage(data, status),
                                        Num(status), data))
                   /\ Ended(c, IF status = 429 THEN "429" ELSE "http")
           /\ reads' = [reads EXCEPT ![c] = @ + BodyReadsInRequest(status)]
    /\ UNCHANGED <<options, retries, res, timers, fetches, waited, before>>
    /\ UNCHANGED <<served, pageVars, listVars>>

\* the retry made with retries + 2
SleepEndsSkipping(c) ==
    /\ pc[c] = "sleep"
    /\ Attempt(c, retries[c] + 2)
    /\ sleeping' = [sleeping EXCEPT ![c] = 0]
    /\ UNCHANGED <<storage, options, outcome, last, log, hist, waited, before>>
    /\ UNCHANGED <<served, pageVars, listVars>>

\* sleep(ms) is over: request(url, options, retries + 1)
SleepEnds(c) ==
    /\ pc[c] = "sleep"
    /\ Attempt(c, retries[c] + 1)
    /\ sleeping' = [sleeping EXCEPT ![c] = 0]
    /\ UNCHANGED <<storage, options, outcome, last, log, hist, waited, before>>
    /\ UNCHANGED <<served, pageVars, listVars>>

\* one call of request
Next ==
    \E c \in Calls :
        \/ \E opts \in Options : Request(c, opts)
        \/ \E r \in 1..Len(Responses) : FetchResolves(c, r)
        \/ FetchRejects(c)
        \/ TimeoutFires(c)
        \/ TextRejects(c)
        \/ TextResolves(c)
        \/ SleepEnds(c)

Spec == Init /\ [][Next]_vars

\* ---------------------------------------------------------------------
\* two calls of request in flight together

\* the responses the two calls meet: the 200 with the members, the 401 of an
\* expired token, the 429 without a hint
ConcResponses == {r \in 1..Len(Responses) :
                     /\ Responses[r].retryAfter = Null
                     /\ Responses[r].text \in
                            {TEXT_members, TEXT_token_expired, TEXT_rate_limit}}

\* the sessions stored when the calls are made: each of the admin and the
\* member session is stored whole or not at all
ConcInit ==
    /\ Init
    /\ storage["adminToken"] = storage["adminData"]
    /\ storage["memberToken"] = storage["memberData"]

NextConc ==
    \E c \in Pair :
        \/ \E opts \in {o \in Options : o.auth = "admin"} : Request(c, opts)
        \/ \E r \in ConcResponses : FetchResolves(c, r)
        \/ FetchRejects(c)
        \/ TimeoutFires(c)
        \/ TextResolves(c)
        \/ SleepEnds(c)

SpecConc == ConcInit /\ [][NextConc]_vars

\* ---------------------------------------------------------------------
\* AdminDashboard (pages/MemberDashboardPage.jsx, lines 379-497) and the
\* AuthContext it uses

\* '401', as fetchAllData looks for it in err.message
STR_401 ==
    <<"4","0","1">>

Handlers ==
    {"fetchAllData", "handleRefreshRatings", "handleMemberSubmit",
     "handleDeleteMember"}

\* the options of the request each function makes with the admin token:
\* api.getAdminStats (the call of fetchAllData's Promise.all that carries the
\* token; the other four are public GETs handled by the same catch),
\* api.refreshRatings, api.createMember or api.updateMember, api.deleteMember
HandlerOptions(h) ==
    CASE h = "fetchAllData" -> {[method |-> "GET", auth |-> "admin"]}
      [] h = "handleRefreshRatings" -> {[method |-> "POST", auth |-> "admin"]}
      [] h = "handleMemberSubmit" ->
             {[method |-> "POST", auth |-> "admin"],
              [method |-> "PUT", auth |-> "admin"]}
      [] OTHER -> {[method |-> "DELETE", auth |-> "admin"]}

\* the call a handler makes, and the call of the fetchAllData() that the
\* other three start once their own call has resolved
Refetch == 2
AdminCalls == Calls \cup {Refetch}

\* the responses the admin endpoints give here: the 200, the 401s of an
\* expired and of an invalid token, a 401 without a body, the 403, the 500
AdminResponses == {r \in 1..Len(Responses) :
                      /\ Responses[r].status \in {200, 401, 403, 500}
                      /\ Responses[r].text \in
                             {TEXT_members, TEXT_token_expired,
                              TEXT_invalid_token, <<>>, TEXT_forbidden,
                              TEXT_db_down}}

\* AuthContext, logout, lines 82-83
logout(st) == removeItem(removeItem(st, "adminToken"), "adminData")

\* fetchAllData, line 442: the test its catch block makes
LogsOut(err) ==
    Includes(err.message, STR_401) \/ Includes(err.message, STR_token)

\* the dashboard is shown to a logged-in admin
AdminInit ==
    /\ Init
    /\ storage["adminToken"] # 0
    /\ storage["adminData"] # 0

\* function h of the dashboard runs up to its await: it calls the api helper,
\* which calls request
HandlerCalls(h, c) ==
    /\ route = "/admin"
    /\ authToken # 0
    /\ caller[c] = "none"
    /\ \E opts \in HandlerOptions(h) : request(c, opts)
    /\ caller' = [caller EXCEPT ![c] = h]
    /\ UNCHANGED <<authToken, route, caught>>
    /\ UNCHANGED listVars

\* the call resolved: the function goes on after its await; fetchAllData
\* sets its state, the other three toast and call fetchAllData()
HandlerThen(c) ==
    /\ caller[c] # "none"
    /\ pc[c] = "resolved"
    /\ caught[c] = "no"
    /\ caught' = [caught EXCEPT ![c] = "then"]
    /\ IF caller[c] = "fetchAllData"
       THEN UNCHANGED <<apiVars, caller>>
       ELSE /\ request(Refetch, [method |-> "GET", auth |-> "admin"])
            /\ caller' = [caller EXCEPT ![Refetch] = "fetchAllData"]
    /\ UNCHANGED <<authToken, route>>
    /\ UNCHANGED listVars

\* the call rejected: the catch block of the function runs. fetchAllData
\* (lines 440-445) calls logout() and navigate('/admin/login') when
\* err.message holds '401' or 'token'; the other three (lines 456, 484, 495)
\* call toast.error and nothing else
HandlerCatch(c) ==
    /\ caller[c] # "none"
    /\ pc[c] = "rejected"
    /\ caught[c] = "no"
    /\ caught' = [caught EXCEPT ![c] = "catch"]
    /\ IF caller[c] = "fetchAllData" /\ LogsOut(outcome[c].error)
       THEN /\ authToken' = 0
            /\ storage' = logout(storage)
            /\ route' = "/admin/login"
       ELSE UNCHANGED <<authToken, storage, route>>
    /\ UNCHANGED <<pc, options, retries, res, sleeping, timers, outcome,
                   fetches, last, log, hist, waited, before, reads, served,
                   caller>>
    /\ UNCHANGED listVars

NextAdmin ==
    \/ \E h \in Handlers, c \in Calls : HandlerCalls(h, c)
    \/ \E c \in AdminCalls :
           \/ \E r \in AdminResponses : FetchResolves(c, r)
           \/ FetchRejects(c)
           \/ TimeoutFires(c)
           \/ TextResolves(c)
           \/ SleepEnds(c)
           \/ HandlerThen(c)
           \/ HandlerCatch(c)

SpecAdmin == AdminInit /\ [][NextAdmin]_vars

\* ---------------------------------------------------------------------
\* a login or a registration that succeeds while a request is in flight

setItem(st, key, value) == [st EXCEPT ![key] = value]

\* AdminLoginPage.handleSubmit, lines 39-42, after its await: api.login
\* resolved with the token and the admin object; AuthContext.login (lines
\* 50-59) sets the state and stores both, and the page navigates
login(tokenData, adminData) ==
    /\ authToken' = tokenData
    /\ storage' = setItem(setItem(storage, "adminToken", tokenData),
                          "adminData", adminData)
    /\ route' = "/admin"
    /\ UNCHANGED <<pc, options, retries, res, sleeping, timers, outcome,
                   fetches, last, log, hist, waited, before, reads, served,
                   caller, caught>>
    /\ UNCHANGED listVars

\* MemberRegisterPage.handleSubmit, lines 100-106, after its await:
\* api.memberRegister resolved with data, whose token is truthy
RegisterStores(tokenData, memberData) ==
    /\ storage' = setItem(setItem(storage, "memberToken", tokenData),
                          "memberData", memberData)
    /\ route' = "/member/dashboard"
    /\ UNCHANGED <<pc, options, retries, res, sleeping, timers, outcome,
                   fetches, last, log, hist, waited, before, reads, served,
                   authToken, caller, caught>>
    /\ UNCHANGED listVars

NextLogin ==
    \/ \E c \in Calls :
           \/ \E opts \in Options : Request(c, opts)
           \/ \E r \in AdminResponses : FetchResolves(c, r)
           \/ FetchRejects(c)
           \/ TimeoutFires(c)
           \/ TextResolves(c)
           \/ SleepEnds(c)
    \/ \E t, a \in 1..NumCredValues : login(t, a)
    \/ \E t, m \in 1..NumCredValues : RegisterStores(t, m)

SpecLogin == Init /\ [][NextLogin]_vars

\* ---------------------------------------------------------------------
\* MembersPage (pages/MembersPage.jsx)

\* the filters: of search, department, sortBy and sortOrder, which the page
\* treats alike, the department is followed; '' is no filter
Departments == {"", "EEE"}

\* limit: 12, line 45
Limit == 12

\* the number of pages the server holds for a filter: of all members, and
\* of the members of EEE, who fill one page
PagesOf(d) == IF d = "" THEN held ELSE 1

Query(d, p) == [department |-> d, page |-> p]

\* what the server answers to GET /members with query q: the members of
\* that page (here one, named by the query; none past the last page), the
\* number of pages and of members under the filter
Listing(q) ==
    [members |-> IF q.page <= PagesOf(q.department) THEN <<q>> ELSE <<>>,
     total_pages |-> PagesOf(q.department),
     total |-> Limit * PagesOf(q.department),
     none |-> FALSE]

\* data.total_pages || 1, line 48
OrOne(n) == IF n = 0 THEN 1 ELSE n

Min(a, b) == IF a <= b THEN a ELSE b
Max(a, b) == IF a >= b THEN a ELSE b

\* the call a fetchMembers() makes: the first that is free
Free(c) ==
    /\ pc[c] = "idle"
    /\ query[c] = NoQuery
    /\ \A b \in Pair : b < c => ~(pc[b] = "idle" /\ query[b] = NoQuery)

\* fetchMembers, lines 35-46, up to its await, as created for the filter
\* and the page of q
fetchMembers(c, q) ==
    /\ Free(c)
    /\ loading' = TRUE
    /\ loadError' = FALSE
    /\ request(c, [method |-> "GET", auth |-> "none"])
    /\ query' = [query EXCEPT ![c] = q]
    /\ latest' = c
    /\ returned' = NoData
    /\ UNCHANGED <<members, totalPages, total, held>>
    /\ UNCHANGED pageVars

\* the function awaiting call c has finished: the call is dropped
Release(c) ==
    /\ pc' = [pc EXCEPT ![c] = "idle"]
    /\ options' = [options EXCEPT ![c] = [method |-> "GET", auth |-> "none"]]
    /\ retries' = [retries EXCEPT ![c] = 0]
    /\ res' = [res EXCEPT ![c] = 0]
    /\ sleeping' = [sleeping EXCEPT ![c] = 0]
    /\ timers' = [timers EXCEPT ![c] = {}]
    /\ outcome' = [outcome EXCEPT ![c] = Pending]
    /\ fetches' = [fetches EXCEPT ![c] = 0]
    /\ last' = [last EXCEPT ![c] = "none"]
    /\ log' = [log EXCEPT ![c] = {}]
    /\ hist' = [hist EXCEPT ![c] = <<>>]
    /\ waited' = [waited EXCEPT ![c] = 0]
    /\ before' = [before EXCEPT ![c] = storage]
    /\ reads' = [reads EXCEPT ![c] = 0]
    /\ served' = [served EXCEPT ![c] = 0]
    /\ query' = [query EXCEPT ![c] = NoQuery]
    /\ UNCHANGED storage

\* the effect of lines 67-69 runs for the page as rendered: after the mount,
\* and after the render that follows the setPage(1) of line 73
FetchMembersEffect(c) ==
    /\ pending
    /\ pending' = FALSE
    /\ fetchMembers(c, Query(department, page))
    /\ UNCHANGED <<department, page>>

\* a filter is chosen (line 154): the page renders, the effect of lines
\* 67-69 calls the fetchMembers of this render, which holds the new filter
\* and the page shown so far, and the effect of lines 71-74 sets page to 1;
\* when that changes page, another render follows
setDepartment(d, c) ==
    /\ ~pending
    /\ d # department
    /\ department' = d
    /\ fetchMembers(c, Query(d, page))
    /\ page' = 1
    /\ pending' = (page # 1)

\* hasActiveFilters, line 84
hasActiveFilters == department # ""

\* clearFilters, lines 76-82, shown while a filter is active: the filter
\* and the page are set in one render, whose effect calls fetchMembers
clearFilters(c) ==
    /\ ~pending
    /\ hasActiveFilters
    /\ department' = ""
    /\ page' = 1
    /\ pending' = FALSE
    /\ fetchMembers(c, Query("", 1))

\* lines 271-277 and 353: the pagination is rendered
PaginationShown == ~loading /\ members # <<>> /\ totalPages > 1

\* setPage(p) from a button of the pagination: when p differs from page
\* the page renders and the effect of lines 67-69 calls fetchMembers
setPage(p, c) ==
    /\ ~pending
    /\ PaginationShown
    /\ p # page
    /\ page' = p
    /\ pending' = FALSE
    /\ fetchMembers(c, Query(department, p))
    /\ UNCHANGED department

\* Previous, lines 359-368: disabled on page 1
ClickPrevious(c) == page # 1 /\ setPage(Max(1, page - 1), c)

\* Next, lines 396-405: disabled on the last page
ClickNext(c) == page # totalPages /\ setPage(Min(totalPages, page + 1), c)

\* lines 371-382: the number on button i of the Math.min(5, totalPages)
pageNum(i) ==
    IF totalPages <= 5 THEN i + 1
    ELSE IF page <= 3 THEN i + 1
    ELSE IF page >= totalPages - 2 THEN totalPages - 4 + i
    ELSE page - 2 + i

\* the indices of the numbered buttons, line 371
Buttons == 0..(Min(5, totalPages) - 1)

\* a numbered button, lines 383-391
ClickPage(i, c) == i \in Buttons /\ setPage(pageNum(i), c)

\* onRetry of the ErrorState, line 264, shown while error is set
RetryLoad(c) ==
    /\ ~pending
    /\ loadError
    /\ pending' = FALSE
    /\ fetchMembers(c, Query(department, page))
    /\ UNCHANGED <<department, page>>

\* api.getMembers resolved: lines 47-49 set the states from data, which is
\* the server's answer to the query of this call, and line 63 ends loading
FetchMembersThen(c) ==
    /\ ~pending
    /\ query[c] # NoQuery
    /\ pc[c] = "resolved"
    /\ LET data == Listing(query[c])
       IN  /\ members' = data.members
           /\ totalPages' = OrOne(data.total_pages)
           /\ total' = data.total
           /\ returned' = IF c = latest THEN data ELSE returned
    /\ loading' = FALSE
    /\ Release(c)
    /\ UNCHANGED <<loadError, department, page, pending, latest, held>>
    /\ UNCHANGED pageVars

\* api.getMembers rejected: line 61 sets error, line 63 ends loading
FetchMembersCatch(c) ==
    /\ ~pending
    /\ query[c] # NoQuery
    /\ pc[c] = "rejected"
    /\ loadError' = TRUE
    /\ loading' = FALSE
    /\ Release(c)
    /\ UNCHANGED <<members, totalPages, total, department, page, pending,
                   latest, returned, held>>
    /\ UNCHANGED pageVars

\* the answers GET /members gives here: the 200 and the 500
MembersResponses == {r \in 1..Len(Responses) :
                        Responses[r].text \in {TEXT_members, TEXT_db_down}}

NextMembers ==
    \E c \in Pair :
        \/ FetchMembersEffect(c)
        \/ \E d \in Departments : setDepartment(d, c)
        \/ clearFilters(c)
        \/ ClickPrevious(c)
        \/ ClickNext(c)
        \/ \E i \in 0..4 : ClickPage(i, c)
        \/ RetryLoad(c)
        \/ \E r \in MembersResponses : FetchResolves(c, r)
        \/ FetchRejects(c)
        \/ TextResolves(c)
        \/ SleepEnds(c)
        \/ FetchMembersThen(c)
        \/ FetchMembersCatch(c)

\* the page is opened by a visitor who is not logged in
MembersInit ==
    /\ Init
    /\ \A k \in CredKeys : storage[k] = 0

SpecMembers == MembersInit /\ [][NextMembers]_vars

\* the members page followed page by page: the server holds any number of
\* pages, and the visitor acts once the loads under way have finished
PagingInit ==
    /\ Constructed
    /\ \A k \in CredKeys : storage[k] = 0
    /\ held \in 0..MaxPages

Loaded == \A c \in Pair : query[c] = NoQuery

NextPaging ==
    \E c \in Pair :
        \/ FetchMembersEffect(c)
        \/ Loaded /\ \E d \in Departments : setDepartment(d, c)
        \/ Loaded /\ clearFilters(c)
        \/ Loaded /\ ClickPrevious(c)
        \/ Loaded /\ ClickNext(c)
        \/ Loaded /\ \E i \in 0..4 : ClickPage(i, c)
        \/ Loaded /\ RetryLoad(c)
        \/ \E r \in MembersResponses : FetchResolves(c, r)
        \/ TextResolves(c)
        \/ FetchMembersThen(c)
        \/ FetchMembersCatch(c)

SpecPaging == PagingInit /\ [][NextPaging]_vars

\* ---------------------------------------------------------------------
\* the same call under the scheduling the event loop and the transport give

\* a session with all four entries stored
LiveInit ==
    /\ Init
    /\ \A k \in CredKeys : storage[k] = NumCredValues

\* the attempt of call c that is under way moves on: fetch resolves or
\* rejects, the timer of line 44 fires, the read of the body rejects or
\* resolves
AttemptMovesOn(c) ==
    \/ \E r \in 1..Len(Responses) : FetchResolves(c, r)
    \/ FetchRejects(c)
    \/ TimeoutFires(c)
    \/ TextRejects(c)
    \/ TextResolves(c)

\* every attempt comes to an end, and every sleep of line 26 ends: a timer
\* that is set fires, a promise of the transport settles
LiveSpec ==
    /\ LiveInit
    /\ [][Next]_vars
    /\ \A c \in Calls : WF_vars(AttemptMovesOn(c)) /\ WF_vars(SleepEnds(c))

----------------------------------------------------------------------------
(* Properties of the request client                                        *)

\* the error a rejected call c rejected with
ErrorOf(c) == outcome[c].error

\* m holds 'expired' or 'token' in any letter case
SaysExpiredOrToken(m) ==
    \E w \in {STR_expired, STR_token} :
        \E i \in 1..Len(m) :
            /\ i + Len(w) - 1 <= Len(m)
            /\ \A j \in 1..Len(w) : LowerChar(m[i + j - 1]) = w[j]

\* call c rejected with a 401 whose message names an expired token
ExpiredToken401(c) ==
    /\ pc[c] = "rejected"
    /\ ErrorOf(c).status = Num(401)
    /\ SaysExpiredOrToken(ErrorOf(c).message)

\* C1: when a call has rejected with a 401 whose message holds 'expired' or
\* 'token' (in any letter case), adminToken, adminData, memberToken and
\* memberData are all absent from localStorage, whatever was stored when the
\* call was made and whichever token the request carried.
C1_ExpiredTokenClearsAll ==
    \A c \in Calls :
        ExpiredToken401(c) => \A k \in CredKeys : storage[k] = 0

\* C1 witness: a request that carried the member token rejected with such a
\* 401; the member entries and adminData were stored before, adminToken was
\* not, and nothing is stored now.
C1_Witness ==
    \E c \in Calls :
        /\ ExpiredToken401(c)
        /\ options[c].auth = "member"
        /\ before[c]["memberToken"] # 0 /\ before[c]["memberData"] # 0
        /\ before[c]["adminData"] # 0 /\ before[c]["adminToken"] = 0
        /\ \A k \in CredKeys : storage[k] = 0

\* C2: while every attempt of a call has received a 429, the call retries
\* after each of the first three, and after the fourth (three retries)
\* it rejects with an ApiError of status 429 whose isRateLimited is true;
\* no fifth attempt is made.
C2_RateLimitRetriesThenRejects ==
    \A c \in Calls :
        log[c] = {"429"} =>
            /\ fetches[c] <= 3 + 1
            /\ pc[c] \in {"fetch", "text", "sleep", "rejected"}
            /\ pc[c] = "sleep" => fetches[c] <= 3
            /\ pc[c] = "rejected" =>
                   /\ fetches[c] = 3 + 1
                   /\ ErrorOf(c).name = "ApiError"
                   /\ ErrorOf(c).status = Num(429)
                   /\ ErrorOf(c).isRateLimited

\* C2 witness: a call rejected after four attempts that all received a 429.
C2_Witness ==
    \E c \in Calls :
        log[c] = {"429"} /\ pc[c] = "rejected" /\ fetches[c] = 4

\* C3: while every attempt of a call has failed at transport level, the
\* call sleeps 1000 ms times the number of the failed attempt and retries,
\* three times at most, and after the fourth failure it rejects with an
\* ApiError of status 0, isNetworkError true and the message 'Unable to
\* connect to server. Please check your internet connection.'
C3_NetworkFailureRetriesThenRejects ==
    \A c \in Calls :
        log[c] = {"network"} =>
            /\ fetches[c] <= 3 + 1
            /\ pc[c] \in {"fetch", "text", "sleep", "rejected"}
            /\ pc[c] = "sleep" =>
                   /\ fetches[c] <= 3
                   /\ sleeping[c] = 1000 * fetches[c]
            /\ pc[c] = "rejected" =>
                   /\ fetches[c] = 3 + 1
                   /\ ErrorOf(c).name = "ApiError"
                   /\ ErrorOf(c).status = Num(0)
                   /\ ErrorOf(c).isNetworkError
                   /\ ErrorOf(c).message = MSG_CONNECT

\* C3 witness: a call rejected after four attempts that all failed at
\* transport level.
C3_Witness ==
    \E c \in Calls :
        log[c] = {"network"} /\ pc[c] = "rejected" /\ fetches[c] = 4

C5_OtherStatusesRejectAtOnce ==
    \A c \in Calls :
        last[c] \in {"401", "http"} =>
            /\ pc[c] = "rejected"
            /\ ErrorOf(c).name = "ApiError"
            /\ ErrorOf(c).status = Num(Responses[res[c]].status)
            /\ fetches[c] = retries[c] + 1

\* { members: [{ id: 1, name: 'A' }], total: 1 }
MembersEnvelope ==
    Obj(<< [k |-> <<"m","e","m","b","e","r","s">>,
            x |-> Arr(<< Obj(<< [k |-> <<"i","d">>, x |-> Num(1)],
                               [k |-> <<"n","a","m","e">>,
                                x |-> Str(<<"A">>)] >>) >>)],
           [k |-> <<"t","o","t","a","l">>, x |-> Num(1)] >>)

C7_EveryFailureRejectsWithApiError ==
    \A c \in Calls :
        /\ (last[c] \notin {"none", "ok"} /\ pc[c] \notin {"fetch", "text", "sleep"})
               => pc[c] = "rejected"
        /\ pc[c] = "rejected"
               => outcome[c].kind = "rejected" /\ ErrorOf(c).name = "ApiError"
        /\ pc[c] = "resolved"
               => outcome[c].kind = "resolved" /\ last[c] = "ok"
        /\ outcome[c].kind = "pending"
               => pc[c] \in {"idle", "fetch", "text", "sleep"}

\* C7 witness: a call whose retries were used up by network failures and
\* whose last response broke off while its body was read has rejected with
\* an ApiError.
C7_Witness ==
    \E c \in Calls :
        /\ pc[c] = "rejected"
        /\ last[c] = "body"
        /\ "network" \in log[c]
        /\ fetches[c] = 4
        /\ ErrorOf(c).name = "ApiError"

\* C8: after a 401 whose message holds neither 'expired' nor 'token' (in any
\* letter case), the four credential entries are what they were when the
\* call was made.
C8_Other401LeavesStorage ==
    \A c \in Calls :
        (last[c] = "401" /\ pc[c] \in {"rejected", "sleep"}
                         /\ ~ExpiredToken401(c))
            => storage = before[c]

\* C8 witness: a call made with all four entries stored rejected with the
\* 401 'Invalid credentials', and all four are stored still.
C8_Witness ==
    \E c \in Calls :
        /\ pc[c] = "rejected"
        /\ last[c] = "401"
        /\ ErrorOf(c).status = Num(401)
        /\ ~SaysExpiredOrToken(ErrorOf(c).message)
        /\ \A k \in CredKeys : before[c][k] # 0 /\ storage[k] = before[c][k]

\* C9: unless a call has rejected with an expired-token 401, localStorage is
\* what it was when the call was made: a 2xx, a 403, a 404, a 429 (retried
\* or surfaced), a 5xx, a timeout and a transport failure remove nothing.
C9_OnlyExpiredToken401Clears ==
    \A c \in Calls : ~ExpiredToken401(c) => storage = before[c]

\* C9 witness: a call that was retried after a 429 and after a network
\* failure and then rejected with a 403 has left all four entries stored.
C9_Witness ==
    \E c \in Calls :
        /\ pc[c] = "rejected"
        /\ ErrorOf(c).status = Num(403)
        /\ {"429", "network"} \subseteq log[c]
        /\ \A k \in CredKeys : before[c][k] # 0 /\ storage[k] = before[c][k]

\* C10: the flags of the ApiError a call rejected with are decided by its
\* status: isNetworkError iff the status is 0 or absent, isRateLimited iff it
\* is 429, isAuthError iff it is 401 or 403, isNotFound iff it is 404,
\* isServerError iff it is 500 or more.
C10_FlagsFollowStatus ==
    \A c \in Calls :
        pc[c] = "rejected" =>
            LET e == ErrorOf(c)
                n == e.status.t = "num"
            IN  /\ e.isNetworkError <=>
                       (e.status.t = "undefined" \/ (n /\ e.status.v = 0))
                /\ e.isRateLimited <=> (n /\ e.status.v = 429)
                /\ e.isAuthError <=> (n /\ e.status.v \in {401, 403})
                /\ e.isNotFound <=> (n /\ e.status.v = 404)
                /\ e.isServerError <=> (n /\ e.status.v >= 500)

\* C10 witness: a call rejected with a 500: isServerError alone is true.
C10_Witness ==
    \E c \in Calls :
        /\ pc[c] = "rejected"
        /\ ErrorOf(c).status = Num(500)
        /\ ErrorOf(c).isServerError
        /\ ~ErrorOf(c).isNetworkError /\ ~ErrorOf(c).isAuthError
        /\ ~ErrorOf(c).isRateLimited /\ ~ErrorOf(c).isNotFound

\* ---------------------------------------------------------------------
\* a mutating request and the server that carries it out

\* the options of api.createMember, api.updateMember and api.deleteMember
\* (lines 289-297)
MutatingOptions ==
    {[method |-> m, auth |-> "admin"] : m \in {"POST", "PUT", "DELETE"}}

\* the server carried out the request, and the connection broke before any
\* of the response arrived: fetch rejects as for any transport failure and
\* the catch block runs
ResponseLost(c) ==
    /\ pc[c] = "fetch"
    /\ served' = [served EXCEPT ![c] = @ + 1]
    /\ Catch(c, TypeError)
    /\ Ended(c, "network")
    /\ UNCHANGED <<storage, options, retries, res, timers, fetches, waited,
                   before, reads>>
    /\ UNCHANGED <<pageVars, listVars>>

NextServer ==
    \E c \in Calls :
        \/ \E opts \in MutatingOptions : Request(c, opts)
        \/ \E r \in 1..Len(Responses) : FetchResolves(c, r)
        \/ FetchRejects(c)
        \/ ResponseLost(c)
        \/ TimeoutFires(c)
        \/ TextRejects(c)
        \/ TextResolves(c)
        \/ SleepEnds(c)

SpecServer == LiveInit /\ [][NextServer]_vars

\* ---------------------------------------------------------------------
\* the wait before a rate-limit retry

\* the Retry-After header of the 429 response call c is waiting after
HintOf(c) == Responses[res[c]].retryAfter

\* a Retry-After header that gives a number of seconds
IsSeconds(h) ==
    /\ h.t = "str"
    /\ Len(h.v) > 0
    /\ \A i \in 1..Len(h.v) : IsDigit(h.v[i])

\* C11: before each 429 retry the client waits for the server's Retry-After
\* hint whenever one is present (read here as generously as the words allow:
\* a hint of n seconds is honoured by a wait of n, taken as milliseconds or
\* as seconds, and nothing is asked of a hint given as a date), and
\* otherwise for 1000 x attempt-number ms: 1000, 2000, 3000.
C11_RateLimitWaitHonoursHint ==
    \A c \in Calls :
        (pc[c] = "sleep" /\ last[c] = "429") =>
            IF HintOf(c).t = "null"
            THEN sleeping[c] = 1000 * fetches[c]
            ELSE IsSeconds(HintOf(c)) =>
                    sleeping[c] \in { DigitsValue(HintOf(c).v, 1,
                                                  Len(HintOf(c).v) + 1, 0) * u :
                                      u \in {1, 1000} }

\* ---------------------------------------------------------------------
\* the message of a surfaced error response

\* call c rejected with the error made from a response that is no 401
Surfaced(c) ==
    /\ pc[c] = "rejected"
    /\ last[c] \in {"http", "429"}

\* the body of the response call c handled last, as parseResponseOnce gives it
BodyOf(c) == parseResponseOnce(Responses[res[c]].text)

\* the first of message, error, detail that the test chosen(field) accepts,
\* as a string; the default message of the status when there is none
FirstField(data, status, chosen(_)) ==
    IF chosen(Get(data, KEY_message)) THEN StringOf(Get(data, KEY_message))
    ELSE IF chosen(Get(data, KEY_error)) THEN StringOf(Get(data, KEY_error))
    ELSE IF chosen(Get(data, KEY_detail)) THEN StringOf(Get(data, KEY_detail))
    ELSE getErrorMessage(status)

\* a field the body has, whatever its value
Present(field) == field.t # "undefined"

\* C12 as stated: the message of a surfaced error that is no 401 is the
\* body's message field if present, else its error field, else its detail
\* field, else the default message of the status.
C12_MessageIsFirstPresentField ==
    \A c \in Calls :
        Surfaced(c) =>
            ErrorOf(c).message =
                FirstField(BodyOf(c), Responses[res[c]].status, Present)

\* C12, amended: the message of a surfaced error that is no 401 is the first
\* of the body's message, error and detail fields whose value is truthy
\* (an empty string, 0, false and null are passed over), converted to a
\* string, and the default message of the status when there is none; a 500
\* with the body {"detail":"db down"} gives the message "db down", status
\* 500 and isServerError true.
C12_MessageIsFirstTruthyField ==
    \A c \in Calls :
        Surfaced(c) =>
            /\ ErrorOf(c).name = "ApiError"
            /\ ErrorOf(c).message =
                   FirstField(BodyOf(c), Responses[res[c]].status, Truthy)
            /\ Responses[res[c]].text = TEXT_db_down =>
                   /\ ErrorOf(c).message = <<"d","b"," ","d","o","w","n">>
                   /\ ErrorOf(c).status = Num(500)
                   /\ ErrorOf(c).isServerError

\* C12 witness: a 403 whose body has an empty message and the error
\* "Admin only" was surfaced with the message "Admin only".
C12_Witness ==
    \E c \in Calls :
        /\ Surfaced(c)
        /\ Responses[res[c]].text = TEXT_forbidden
        /\ Present(Get(BodyOf(c), KEY_message))
        /\ ErrorOf(c).message = <<"A","d","m","i","n"," ","o","n","l","y">>

\* ---------------------------------------------------------------------
\* reading the body

\* C13: the body of every response received is read exactly once, on every
\* attempt and whatever comes of it: from the moment fetch resolved with a
\* response, through the parsing and handling of it (success, 401, 429
\* retried or surfaced, other error, a read that fails) and until the next
\* attempt calls fetch, the body of that response has been read once; while
\* an attempt has no response, no body has been read.
C13_BodyReadOnce ==
    \A c \in Calls :
        /\ res[c] # 0 => reads[c] = 1
        /\ res[c] = 0 => reads[c] = 0

\* C13 witness: a call that slept after a 429, then rejected with the error
\* of a 500: its second response has been handled and was read once.
C13_Witness ==
    \E c \in Calls :
        /\ pc[c] = "rejected"
        /\ log[c] = {"429", "http"}
        /\ fetches[c] = 2
        /\ Responses[res[c]].status = 500
        /\ reads[c] = 1

\* ---------------------------------------------------------------------
\* recovery, and the bound on the attempts

\* every attempt of call c that has ended ended in a 429 response or in a
\* transport failure
OnlyTransient(c) == log[c] # {} /\ log[c] \subseteq {"429", "network"}

\* C14: recovery from transient failure. While the attempts of a call that
\* have ended, three at most, each ended in a 429 response or a transport
\* failure, the call has not rejected: it sleeps before the next attempt or
\* that attempt is under way. When the attempt after k such attempts
\* (k <= 3) was answered with a 2xx response, the call has resolved with
\* the body of that response and fetch has been called k + 1 times, not
\* once more.
C14_RecoversAfterTransientFailures ==
    \A c \in Calls :
        /\ (OnlyTransient(c) /\ fetches[c] <= 3) =>
               pc[c] \in {"sleep", "fetch", "text"}
        /\ (log[c] \subseteq {"429", "network", "ok"} /\ last[c] = "ok") =>
               /\ pc[c] = "resolved"
               /\ outcome[c] = [kind |-> "resolved", data |-> BodyOf(c)]
               /\ fetches[c] = retries[c] + 1
               /\ fetches[c] <= 3 + 1

\* C14 witness: a call resolved with the members envelope on its fourth
\* attempt, after 429 responses and transport failures.
C14_Witness ==
    \E c \in Calls :
        /\ log[c] = {"429", "network", "ok"}
        /\ fetches[c] = 4
        /\ pc[c] = "resolved"
        /\ outcome[c].data = MembersEnvelope

\* C18: within one call the retry counter is shared by the rate-limit
\* retries and the transport-failure retries: whatever mix of 429 responses
\* and transport failures the attempts meet, the counter never exceeds 3,
\* each retry adds one to it whichever kind of failure caused it, and fetch
\* is called at most 4 times.
C18_SharedRetryCounter ==
    \A c \in Calls :
        /\ retries[c] <= 3
        /\ fetches[c] <= 3 + 1
        /\ pc[c] # "idle" => fetches[c] = retries[c] + 1

\* C18 witness: a call rejected on its fourth attempt, after attempts that
\* ended in 429 responses and attempts that ended in transport failures.
C18_Witness ==
    \E c \in Calls :
        /\ log[c] = {"429", "network"}
        /\ pc[c] = "rejected"
        /\ retries[c] = 3
        /\ fetches[c] = 4

\* ---------------------------------------------------------------------
\* the reach of the timeout

\* the 30 s timer of the attempt of call c that is under way is armed
TimeoutArmed(c) ==
    \E t \in timers[c] : t.n = retries[c] /\ t.ms = TIMEOUT_MS

\* C20: the timeout bounds the whole of each attempt: while an attempt is
\* waiting on the transport, for the response or for the body of the
\* response, its 30 s timer is armed (so that an attempt whose body never
\* completes ends with the 408 error).
C20_TimeoutArmedWhileWaiting ==
    \A c \in Calls :
        pc[c] \in {"fetch", "text"} => TimeoutArmed(c)

\* ---------------------------------------------------------------------
\* termination

\* the promise of call c has settled
Settled(c) == pc[c] \in {"resolved", "rejected"}

Local(d) ==
    <<pc[d], options[d], retries[d], res[d], sleeping[d], timers[d],
      outcome[d], fetches[d], reads[d]>>

\* the attempt of call c that was made last has ended and the call has
\* decided what comes next
Decided(c) == pc[c] \in {"sleep", "resolved", "rejected"}

\* C16: calls in flight together are independent. Under every interleaving
\* of two calls, a step taken for one call changes nothing request keeps of
\* the other (its retry counter, its timers and controllers, its response,
\* its outcome); and what a call has come to (sleeping before a retry and
\* for how long, resolved with which body, rejected with which error) and
\* the number of its attempts are decided by what its own attempts met:
\* two calls whose attempts met the same, in the same order, have come to
\* the same, whatever the other call did in between.
C16_ConcurrentCallsIndependent ==
    /\ [](\A c \in Pair, d \in Pair :
             (Decided(c) /\ Decided(d) /\ hist[c] = hist[d]) =>
                 /\ pc[c] = pc[d]
                 /\ outcome[c] = outcome[d]
                 /\ sleeping[c] = sleeping[d]
                 /\ retries[c] = retries[d]
                 /\ fetches[c] = fetches[d]
                 /\ fetches[c] = Len(hist[c]))
    /\ [][\E c \in Pair :
             \A d \in AllCalls \ {c} : Local(d)' = Local(d)]_vars

\* C16 witness: both calls are in flight, one sleeping before its third
\* attempt, the other waiting for the response to its second with its own
\* timer armed.
C16_Witness ==
    \E c \in Pair, d \in Pair :
        /\ pc[c] = "sleep" /\ retries[c] = 1 /\ fetches[c] = 2
        /\ pc[d] = "fetch" /\ retries[d] = 1 /\ fetches[d] = 2
        /\ hist[c] # hist[d]
        /\ TimeoutArmed(d)
        /\ timers[c] # timers[d]

\* call c is handling the 401 of an expired token
HandlingExpired401(c) ==
    /\ pc[c] = "text"
    /\ Responses[res[c]].status = 401
    /\ Responses[res[c]].text = TEXT_token_expired

C15_AuthErrorLogsOut ==
    \A c \in AdminCalls :
        (/\ caller[c] \in Handlers
         /\ caught[c] = "catch"
         /\ (ErrorOf(c).isAuthError \/ ErrorOf(c).status = Num(401))) =>
            /\ authToken = 0
            /\ route = "/admin/login"

\* ---------------------------------------------------------------------
\* the 401 without a message

\* the body has none of the fields message, error and detail
NoMessageField(data) ==
    /\ ~Present(Get(data, KEY_message))
    /\ ~Present(Get(data, KEY_error))
    /\ ~Present(Get(data, KEY_detail))

\* the response of the attempt of call c that was made last is a 401 and
\* request has handled it
Handled401(c) ==
    /\ last[c] = "401"
    /\ res[c] # 0
    /\ Responses[res[c]].status = 401
    /\ pc[c] # "text"

\* C24: when the latest attempt of a call received a 401 whose body has no
\* message, error or detail field (an empty body, a body that is no JSON,
\* an object with other fields), the call has rejected with an ApiError of
\* status 401 and the message 'Session expired. Please login again.', and
\* the four credential entries are absent from localStorage.
C24_BareAuthErrorDefaultsAndWipes ==
    \A c \in Calls :
        (Handled401(c) /\ NoMessageField(BodyOf(c))) =>
            /\ pc[c] = "rejected"
            /\ ErrorOf(c).name = "ApiError"
            /\ ErrorOf(c).status = Num(401)
            /\ ErrorOf(c).message = MSG_SESSION_EXPIRED
            /\ \A k \in CredKeys : storage[k] = 0

\* C24 witness: a 401 with the body {"ok":false} was handled while all four
\* entries were stored: the default message, and nothing stored any more.
C24_Witness ==
    \E c \in Calls :
        /\ Handled401(c)
        /\ Responses[res[c]].text = TEXT_no_message
        /\ \A k \in CredKeys : before[c][k] # 0
        /\ ErrorOf(c).message = MSG_SESSION_EXPIRED
        /\ \A k \in CredKeys : storage[k] = 0

\* ---------------------------------------------------------------------
\* what a retry sends

\* C25: each retry, after a 429 response or after a transport failure,
\* re-issues the request of the first attempt: the step that ends a sleep
\* calls fetch with the descriptor the call was made with, unchanged, and
\* with the retry counter one higher; and at every attempt the counter is
\* the number of retries made so far.
C25_RetrySendsSameDescriptor ==
    /\ [][\A c \in Calls :
             (pc[c] = "sleep" /\ pc'[c] # "sleep") =>
                 /\ pc'[c] = "fetch"
                 /\ options'[c] = options[c]
                 /\ retries'[c] = retries[c] + 1
                 /\ fetches'[c] = fetches[c] + 1]_vars
    /\ [](\A c \in Calls : pc[c] # "idle" => retries[c] = fetches[c] - 1)

\* C25 witness: the third attempt of a PUT made with the admin token is
\* under way, after a 429 response and a transport failure.
C25_Witness ==
    \E c \in Calls :
        /\ pc[c] = "fetch"
        /\ retries[c] = 2
        /\ log[c] = {"429", "network"}
        /\ options[c] = [method |-> "PUT", auth |-> "admin"]

\* ---------------------------------------------------------------------
\* the growth of the default delay

\* call c sleeps after a 429 response that carried no Retry-After header
SleepsAfterBare429(c) ==
    /\ pc[c] = "sleep"
    /\ last[c] = "429"
    /\ HintOf(c).t = "null"

\* C26 as stated: without a hint, the delay before successive 429 retries
\* grows exponentially with the attempt number: each delay is the one before
\* it times a constant factor, which the first two delays, 1000 and 2000 ms,
\* fix at 2.
C26_DefaultDelayExponential ==
    \A c \in Calls :
        SleepsAfterBare429(c) => sleeping[c] = 1000 * 2^(fetches[c] - 1)

\* C26, amended: without a hint, the delay before successive 429 retries
\* grows linearly with the attempt number: it is 1000 ms times the number
\* of the attempt that was answered (1000, 2000, 3000), each delay 1000 ms
\* longer than the one before.
C26_DefaultDelayLinear ==
    \A c \in Calls :
        SleepsAfterBare429(c) =>
            /\ fetches[c] \in 1..3
            /\ sleeping[c] = 1000 * fetches[c]

\* C26 witness: a call sleeps 3000 ms after its third attempt; each of its
\* attempts was answered with a 429.
C26_Witness ==
    \E c \in Calls :
        /\ SleepsAfterBare429(c)
        /\ log[c] = {"429"}
        /\ fetches[c] = 3
        /\ sleeping[c] = 3000

\* ---------------------------------------------------------------------
\* timers that outlive their attempt

\* timer t of call c belongs to an attempt that has ended
Stale(c, t) == t.n # retries[c] \/ pc[c] # "fetch"

\* C27: the timer armed for one attempt can only end that attempt. When a
\* timer goes off after its attempt has ended (the attempt failed at
\* transport level and line 51 never cancelled it), nothing of the call
\* changes but the timer being gone: a later attempt that is under way stays
\* under way with its own timer, a sleep goes on, an outcome stays.
C27_StaleTimerEndsNothing ==
    [][\A c \in Calls :
          (\E t \in timers[c] : t \notin timers'[c] /\ Stale(c, t)) =>
              /\ pc'[c] = pc[c]
              /\ outcome'[c] = outcome[c]
              /\ retries'[c] = retries[c]
              /\ fetches'[c] = fetches[c]
              /\ res'[c] = res[c]
              /\ sleeping'[c] = sleeping[c]
              /\ last'[c] = last[c]
              /\ (pc[c] = "fetch" => TimeoutArmed(c)')]_vars

\* C27 witness: the first attempt failed at transport level, its timer has
\* gone off since, and the second attempt is waiting for its response with
\* its own timer armed.
C27_Witness ==
    \E c \in Calls :
        /\ pc[c] = "fetch"
        /\ retries[c] = 1
        /\ log[c] = {"network"}
        /\ timers[c] = {[n |-> 1, ms |-> TIMEOUT_MS]}

\* ---------------------------------------------------------------------
\* the session AuthContext holds

\* no call of the dashboard is under way and every function that awaited
\* one has run on, through its catch block when the call rejected
Quiet ==
    \A c \in AdminCalls :
        \/ caller[c] = "none" /\ pc[c] = "idle"
        \/ caught[c] # "no"

\* C21: AuthContext is authenticated (its token is set) only if the
\* adminToken entry is still in localStorage: once a call has rejected with
\* the 401 of an expired token, the session held by AuthContext is cleared
\* together with the stored entries, and no request carrying that token can
\* be made. Asked here of the states in which the function that made the
\* call has handled the rejection, not of the moment between the wipe and
\* the catch block.
C21_AuthenticatedOnlyIfStored ==
    Quiet => (authToken # 0 => storage["adminToken"] # 0)

\* ---------------------------------------------------------------------
\* a mutating request is carried out once

\* C22: within one call, a mutating request (POST, PUT or DELETE) is
\* carried out by the server at most once: when the server has carried it
\* out and the response is lost in transit, the client does not send it
\* again.
C22_MutationAppliedAtMostOnce ==
    \A c \in Calls :
        options[c].method \in {"POST", "PUT", "DELETE"} => served[c] <= 1

\* ---------------------------------------------------------------------
\* the wipe and the credentials stored after the request was issued

\* C23: the wipe a request makes on its 401 response removes only
\* credentials that were stored when the request was issued: an entry that
\* was absent then and has been stored since, by a login or a registration
\* that succeeded while the request was in flight, is still stored once
\* the request has rejected.
C23_WipeSparesLaterCredentials ==
    [][\A c \in Calls :
          (pc[c] = "text" /\ pc'[c] = "rejected")
              => \A k \in CredKeys :
                     (before[c][k] = 0 /\ storage[k] # 0) => storage'[k] # 0
      ]_vars

\* ---------------------------------------------------------------------
\* the members page: overlapping loads

\* no fetchMembers() is in progress and no effect has yet to run
AllSettled == ~pending /\ \A c \in Pair : query[c] = NoQuery

\* C28: when several fetchMembers requests have overlapped, then once all
\* of them have settled the displayed members, total and totalPages are
\* those returned for the request issued most recently.
C28_LatestRequestIsDisplayed ==
    (AllSettled /\ returned # NoData)
        => /\ members = returned.members
           /\ totalPages = OrOne(returned.total_pages)
           /\ total = returned.total

\* a fetchMembers() is awaiting its call of api.getMembers
InFlight(c) == query[c] # NoQuery

\* C29: loading is true in every state in which at least one load request
\* is still in flight, and becomes false only when none is.
C29_LoadingWhileInFlight ==
    (\E c \in Pair : InFlight(c)) => loading

\* ---------------------------------------------------------------------
\* the members page: pagination

PageInRange == 1 <= page /\ page <= totalPages

\* the steps that are clicks on Previous, Next or a numbered button: page
\* changes under the same filter
PageClick == page' # page /\ department' = department

\* each numbered button shown (at most 5) carries a page number within
\* [1, totalPages]
ButtonsInRange ==
    /\ Cardinality(Buttons) <= 5
    /\ \A i \in Buttons : 1 <= pageNum(i) /\ pageNum(i) <= totalPages

\* C30: starting from any state with 1 <= page <= totalPages, every
\* sequence of Previous, Next and numbered page-button clicks keeps
\* 1 <= page <= totalPages, each numbered button shown (at most 5) carrying
\* a page number within [1, totalPages].
C30_PageStaysInRange == PageInRange /\ ButtonsInRange

\* the step of a click leaves page in range when it was, whatever loads
\* are under way
ClicksKeepRange == [][(PageClick /\ PageInRange) => PageInRange']_vars

====
